---- MODULE Spec2Model ----
(***************************************************************************)
(* EC2 deployer backend (backend/app): the deployments table, the EC2      *)
(* provider as the handlers see it, and the HTTP handlers of main.py.      *)
(*                                                                         *)
(* One action per handler; a handler runs from its first line to its       *)
(* response.  Everything the provider or the database may answer is an     *)
(* input of the action.                                                    *)
(*                                                                         *)
(* main.py binds the name Deployment twice (lines 10-11); the handlers are *)
(* modelled with the binding in force, under which the constructor and     *)
(* select() raise, followed by what the handler does once they return.     *)
(***************************************************************************)
EXTENDS Integers, Sequences, FiniteSets, TLC

VARIABLES
    deployments,      \* rows of table "deployments" (models.py)
    security_groups,  \* the provider's security groups
    instances,        \* the provider's instances: instance id -> state name
    last              \* the latest step: the request that came in, what it called,
                      \* what went out; or the provider's own step

vars == <<deployments, security_groups, instances, last>>

---------------------------------------------------------------------------
(* Bounds *)

\* Rows the table holds when the process starts.
MaxInitRows == 2
\* Security groups the provider holds at most.
MaxGroups == 2
\* Latest reading of the clock (datetime.now).
MaxClock == 1

---------------------------------------------------------------------------
(* Values *)

\* Python's None, SQL NULL.
None == "None"

\* Instance names, as sequences of characters.
InstanceNames == {<<"W", "e", "b">>, <<"w", "e", "b">>}

\* str.lower() on the characters in use.
UpperToLower == [W |-> "w", D |-> "d"]

lower(s) == [i \in DOMAIN s |->
                IF s[i] \in DOMAIN UpperToLower THEN UpperToLower[s[i]] ELSE s[i]]

\* f"sg-{deployment.instance_name.lower()}"
group_name_of(instance_name) == <<"s", "g", "-">> \o lower(instance_name)

\* Request bodies of POST /api/deploy.
DeploymentCreate ==
    [instance_name : InstanceNames, instance_type : {"t3.micro"},
     ami_id : {"ami-123"}, key_name : {"k1"}]

NoRequest ==
    [instance_name |-> <<>>, instance_type |-> None, ami_id |-> None, key_name |-> None]

\* Identifiers the provider hands out, in the order it hands them out.
GroupIdPool == <<"sg-1", "sg-2", "sg-3", "sg-4", "sg-5">>
InstanceIdPool == <<"i-1", "i-2", "i-3", "i-4">>
InstanceIds == {InstanceIdPool[k] : k \in DOMAIN InstanceIdPool}

\* Path parameter deployment_id: the first row of the table, or no row at all
\* (the primary key starts at 1).
DeploymentIds == {0, 1}

PublicIp == "1.2.3.4"
PrivateIp == "10.0.0.1"

\* EC2 instance state names; "none" is an id not handed out yet, "gone" an
\* instance the provider no longer knows.
InstanceStates == {"pending", "running", "shutting-down", "terminated"}
Unknown == {"none", "gone"}

\* The three ingress rules of authorize_security_group_ingress.
IpPermissions ==
    {[IpProtocol |-> "tcp", FromPort |-> p, ToPort |-> p, CidrIp |-> "0.0.0.0/0"] :
        p \in {22, 80, 443}}

---------------------------------------------------------------------------
(* Table deployments *)

\* A Deployment object as the handler builds it at main.py 61-68; the column
\* defaults (launch_time, created_at, updated_at) are filled at INSERT.
Deployment(id, deployment, security_group_id, now) ==
    [id |-> id,
     instance_id |-> None,
     instance_name |-> deployment.instance_name,
     instance_type |-> deployment.instance_type,
     ami_id |-> deployment.ami_id,
     key_name |-> deployment.key_name,
     status |-> "pending",
     public_ip |-> None,
     private_ip |-> None,
     security_group_id |-> security_group_id,
     vpc_id |-> None,
     subnet_id |-> None,
     az |-> None,
     launch_time |-> now,
     created_at |-> now,
     updated_at |-> now]

Max(S) == CHOOSE x \in S : \A y \in S : y <= x

\* The next value of the primary key.
next_id(table) == Max({0} \cup {r.id : r \in table}) + 1

\* The constraints, were instance_id declared without unique=True.
integrity_ok_without_unique(table) ==
    /\ \A r \in table : r.instance_id # None
    /\ \A r \in table :
           /\ r.instance_name # None /\ r.instance_type # None
           /\ r.ami_id # None /\ r.key_name # None
    /\ \A r1, r2 \in table : r1.id = r2.id => r1 = r2

\* The constraints of the table: id is the primary key, instance_id is
\* NOT NULL and UNIQUE, and so are the other nullable=False columns NOT NULL.
integrity_ok(table) ==
    /\ \A r \in table : r.instance_id # None
    /\ \A r \in table :
           /\ r.instance_name # None /\ r.instance_type # None
           /\ r.ami_id # None /\ r.key_name # None
    /\ \A r1, r2 \in table : r1.id = r2.id => r1 = r2
    /\ \A r1, r2 \in table : r1.instance_id = r2.instance_id => r1 = r2

\* select(Deployment).where(Deployment.id == deployment_id) with
\* scalar_one_or_none(): the set holding the row, or the empty set for None.
scalar_one_or_none(table, deployment_id) == {r \in table : r.id = deployment_id}

\* The one row of a non-empty result.
row_of(result) == CHOOSE r \in result : TRUE

\* The clock never reads earlier than a time it has stamped on a row.
Latest(table) ==
    Max({0} \cup {r.created_at : r \in table} \cup {r.updated_at : r \in table})

Clock(table) == Latest(table)..MaxClock

\* UPDATE of one row at flush: nothing is written when no column changed;
\* otherwise onupdate stamps updated_at.
flush_update(old, new, now) ==
    IF new = old THEN old ELSE [new EXCEPT !.updated_at = now]

---------------------------------------------------------------------------
(* aws.py *)

\* Provider calls, in the order a handler issued them.
NoCalls == <<>>

Count(calls, name) == Cardinality({k \in DOMAIN calls : calls[k] = name})

\* Groups the filter {'Name': 'group-name', 'Values': [group_name]} matches.
matching_groups(groups, group_name) == {g \in groups : g.GroupName = group_name}

\* What describe_security_groups may answer: it raises ClientError, it raises
\* another error (no connection), or it lists the matching groups, in an order
\* of the provider's choosing; GroupId is the first of the list, None if empty.
describe_security_groups_answers(groups, group_name) ==
    {[raised |-> "ClientError", GroupId |-> None],
     [raised |-> "EndpointConnectionError", GroupId |-> None]}
    \cup (IF matching_groups(groups, group_name) = {}
          THEN {[raised |-> None, GroupId |-> None]}
          ELSE {[raised |-> None, GroupId |-> g.GroupId] :
                    g \in matching_groups(groups, group_name)})

\* describe_vpcs: raises, lists no VPC, or lists the account's VPCs in an order
\* of the provider's choosing; the answer is the VpcId of the first one listed.
Vpcs == {"vpc-1", "vpc-2"}

describe_vpcs_answers == {"ClientError", "empty"} \cup Vpcs

\* create_security_group and authorize_security_group_ingress: accepted or not.
call_answers == {"ok", "ClientError"}

\* The provider keeps group names unique within a VPC: a second group of the
\* name in the VPC is refused (InvalidGroup.Duplicate, a ClientError).
duplicate_group(groups, group_name, vpc_id) ==
    \E g \in groups : g.GroupName = group_name /\ g.VpcId = vpc_id

\* What one create_security_group call comes to, were a call that failed
\* issued once more.
sg_result_reissuing(raised, group_id, groups, calls) ==
    [raised |-> raised, GroupId |-> group_id, groups |-> groups,
     calls |-> IF raised # None THEN calls \o <<calls[Len(calls)]>> ELSE calls]

\* What one create_security_group call comes to: the exception it raised
\* (None if it returned), the id it returned, the provider's groups after it,
\* and the provider calls it issued.
sg_result(raised, group_id, groups, calls) ==
    [raised |-> raised, GroupId |-> group_id, groups |-> groups, calls |-> calls]

\* aws.py 13-43.
create_security_group(groups, group_name, lookup, vpcs, create, authorize) ==
    LET new_id == GroupIdPool[Cardinality(groups) + 1]
        created == groups \cup
            {[GroupId |-> new_id, GroupName |-> group_name, VpcId |-> vpcs,
              IpPermissions |-> {}]}
        authorized == groups \cup
            {[GroupId |-> new_id, GroupName |-> group_name, VpcId |-> vpcs,
              IpPermissions |-> IpPermissions]}
        c1 == <<"describe_security_groups">>
        c2 == c1 \o <<"describe_vpcs">>
        c3 == c2 \o <<"create_security_group">>
        c4 == c3 \o <<"authorize_security_group_ingress">>
    IN  IF lookup.raised = None /\ lookup.GroupId # None
            THEN sg_result(None, lookup.GroupId, groups, c1)
        ELSE IF lookup.raised \notin {None, "ClientError"}
            THEN sg_result(lookup.raised, None, groups, c1)
        ELSE IF vpcs = "ClientError"
            THEN sg_result("ClientError", None, groups, c2)
        ELSE IF vpcs = "empty"
            \* VpcId=None is rejected by the client's parameter validation
            THEN sg_result("ParamValidationError", None, groups, c3)
        ELSE IF create # "ok" \/ duplicate_group(groups, group_name, vpcs)
            THEN sg_result("ClientError", None, groups, c3)
        ELSE IF authorize # "ok"
            THEN sg_result("ClientError", None, created, c4)
        ELSE sg_result(None, new_id, authorized, c4)

---------------------------------------------------------------------------
(* The provider's instances *)

\* run_instances: the provider refuses, or starts the next instance; of the
\* instance it reports the id and, each present or not, the other keys the
\* handler reads.  LaunchTime is <<>> when absent, <<t>> when present.
run_instances_answers == {"ok", "ClientError"}

fresh_instance_ids(insts) ==
    {InstanceIdPool[k] : k \in {j \in DOMAIN InstanceIdPool :
        /\ insts[InstanceIdPool[j]] = "none"
        /\ \A i \in 1..(j - 1) : insts[InstanceIdPool[i]] # "none"}}

run_instances_instances(insts, now) ==
    [InstanceId : fresh_instance_ids(insts),
     LaunchTime : {<<>>, <<now>>},
     PublicIpAddress : {None, PublicIp},
     PrivateIpAddress : {None, PrivateIp},
     SubnetId : {None, "subnet-1"},
     VpcId : {None, "vpc-1"},
     Placement : {None, "us-east-1a"}]

\* describe_instances(InstanceIds=[instance_id]): the call raises, or reports
\* no reservation (only for an instance the provider does not know), or reports
\* the instance: its state name and, each present or not, its addresses.
NoInstance ==
    [raised |-> None, found |-> FALSE, State |-> None,
     PublicIpAddress |-> None, PrivateIpAddress |-> None]

describe_instances_answers(insts, instance_id) ==
    {[NoInstance EXCEPT !.raised = "ClientError"]}
    \cup (IF instance_id \notin DOMAIN insts \/ insts[instance_id] \in Unknown
          THEN {NoInstance}
          ELSE [raised : {None}, found : {TRUE}, State : {insts[instance_id]},
                PublicIpAddress : {None, PublicIp},
                PrivateIpAddress : {None, PrivateIp}])

\* terminate_instances(InstanceIds=[instance_id]): refused, or (for an instance
\* the provider knows) accepted.
terminate_instances_answers(insts, instance_id) ==
    {"ClientError"}
    \cup (IF instance_id \notin DOMAIN insts \/ insts[instance_id] \in Unknown
          THEN {} ELSE {"ok"})

\* The provider's side of an accepted terminate_instances.
terminated_by_request(insts, instance_id) ==
    IF insts[instance_id] \in {"pending", "running"}
    THEN [insts EXCEPT ![instance_id] = "shutting-down"]
    ELSE insts

\* What an instance does on its own: it comes up, it goes down once its
\* termination was asked for, and some time after that the provider forgets it.
provider_edges ==
    {<<"pending", "running">>, <<"shutting-down", "terminated">>,
     <<"terminated", "gone">>}

---------------------------------------------------------------------------
(* main.py: what a request comes to *)

\* COMMIT: the database refuses it (connection lost), or a constraint of the
\* table does, or it is done.  None when done, else the exception.
commit_answers == {"ok", "OperationalError"}

commit_error(table, answer) ==
    IF answer # "ok" THEN "OperationalError"
    ELSE IF ~integrity_ok(table) THEN "IntegrityError"
    ELSE None

NoSecurityGroup == [raised |-> None, GroupId |-> None]

\* main.py 10-11: two imports bind the name Deployment in main.py, first to the
\* mapped class of models.py, then to the response schema of schemas.py.
imports_of_Deployment == <<"models", "schemas">>

\* Lines 10-11, were the schema not imported under the name of the mapped class.
Deployment_imported_from_models == imports_of_Deployment[1]

\* What the name Deployment stands for in the handlers: the later binding.
Deployment_imported_from == imports_of_Deployment[Len(imports_of_Deployment)]

\* select(Deployment), main.py 129, 143, 163, 202: a statement over the mapped
\* class; of a class that is not mapped SQLAlchemy raises ArgumentError before
\* anything is sent to the database.
select_raised ==
    IF Deployment_imported_from = "models" THEN None ELSE "ArgumentError"

\* Deployment(instance_name=..., status="pending", security_group_id=...),
\* main.py 61-68: the mapped class takes the columns given; the schema
\* (schemas.py 13-25) requires id, instance_id, launch_time, created_at and
\* updated_at, which the call does not pass, and raises ValidationError.
constructor_raised ==
    IF Deployment_imported_from = "models" THEN None ELSE "ValidationError"

\* The record of a request before it has done anything.
request(op, deployment, deployment_id) ==
    [op |-> op,
     deployment |-> deployment,          \* body of POST /api/deploy
     deployment_id |-> deployment_id,    \* path parameter (0 on a route without)
     before |-> deployments,             \* the table when the request came in
     calls |-> NoCalls,                  \* provider calls issued
     security_group |-> NoSecurityGroup, \* what create_security_group came to
     run_instances |-> None,             \* the provider's answer to a launch,
                                         \* whether the handler gets to ask or not
     describe_instances |-> NoInstance,  \* the provider's answer to describe
     terminate_instances |-> None,       \* the provider's answer to terminate
     raised |-> None,                    \* exception raised inside the try
     status_code |-> 0,                  \* HTTP status the caller sees
     success |-> FALSE,                  \* DeploymentResponse.success or "success"
     instance_id |-> None,               \* DeploymentResponse.instance_id
     new_deployment_id |-> 0,            \* DeploymentResponse.deployment_id
     body |-> {}]                        \* the Deployment returned, if one is

\* raise HTTPException(status_code=404, ...) inside the try.
HTTPException_404 == "HTTPException(404)"

\* db.rollback(), were the except clause to remove the row of the request that
\* failed instead.
rollback_deleting(table, deployment_id) ==
    {r \in table : r.id # deployment_id}

\* await db.rollback() in the except clause of deploy and terminate (main.py
\* 120, 220): what the request had not committed is dropped, and the table is
\* as it was committed.
rollback(table, deployment_id) == table

\* The except clause of sync, were it to record the failure on the row.
sync_error_marking_failed(table, deployment_id) ==
    {IF r.id = deployment_id THEN [r EXCEPT !.status = "failed"] ELSE r : r \in table}

\* The except clause of sync (main.py 192-197) writes nothing, and the session
\* is closed without a commit (databases.py 18-23): the table is as it was
\* committed.
sync_error_leaves(table, deployment_id) == table

\* The except clause, were it to answer 200 with success = False instead of
\* raising.
except_Exception_answers_200(req, e) ==
    [req EXCEPT !.raised = e, !.status_code = 200]

\* The except clause of a handler (main.py 119-125, 153-158, 192-197,
\* 219-225): whatever was raised inside the try, HTTPException included, is
\* caught as Exception and raised again as HTTP 500.
except_Exception(req, e) ==
    [req EXCEPT !.raised = e, !.status_code = 500]

\* main.py 91-107: the provider's instance merged into the record.
launched(db_deployment, instance, now) ==
    [db_deployment EXCEPT
        !.instance_id = instance.InstanceId,
        !.launch_time = IF instance.LaunchTime # <<>> THEN instance.LaunchTime[1] ELSE now,
        !.public_ip = IF instance.PublicIpAddress # None
                      THEN instance.PublicIpAddress ELSE @,
        !.private_ip = IF instance.PrivateIpAddress # None
                       THEN instance.PrivateIpAddress ELSE @,
        !.subnet_id = IF instance.SubnetId # None THEN instance.SubnetId ELSE @,
        !.vpc_id = IF instance.VpcId # None THEN instance.VpcId ELSE @,
        !.az = IF instance.Placement # None THEN instance.Placement ELSE @,
        !.status = "running"]

\* Every way one create_security_group call may go, over the provider's answers.
create_security_group_outcomes(groups, group_name) ==
    {create_security_group(groups, group_name, lookup, vpcs, create, authorize) :
        lookup \in describe_security_groups_answers(groups, group_name),
        vpcs \in describe_vpcs_answers,
        create \in call_answers,
        authorize \in call_answers}

\* POST /api/deploy, main.py 51-125.
deploy_instance(deployment) ==
    \E sg \in create_security_group_outcomes(
                security_groups, group_name_of(deployment.instance_name)) :
      LET arrived == [request("deploy", deployment, 0) EXCEPT
                        !.calls = sg.calls,
                        !.security_group =
                            [raised |-> sg.raised, GroupId |-> sg.GroupId]]
      IN
      /\ Cardinality(sg.groups) <= MaxGroups
      /\ security_groups' = sg.groups
      /\ IF sg.raised # None
         THEN \* line 58 raised
              /\ last' = except_Exception(arrived, sg.raised)
              /\ deployments' = rollback(deployments, 0)
              /\ UNCHANGED instances
         ELSE
           \E launch \in run_instances_answers :
             LET req == [arrived EXCEPT !.run_instances = launch] IN
             IF constructor_raised # None
             THEN \* line 61 raised; rollback
                  /\ last' = except_Exception(req, constructor_raised)
                  /\ deployments' = rollback(deployments, 0)
                  /\ UNCHANGED instances
             ELSE
             \E insert \in commit_answers :
             LET draft == Deployment(next_id(deployments), deployment, sg.GroupId,
                                     Latest(deployments))
                 called == [req EXCEPT !.calls = @ \o <<"run_instances">>]
             IN
             IF commit_error(deployments \cup {draft}, insert) # None
             THEN \* line 71 raised; rollback
                  /\ last' = except_Exception(
                                 req, commit_error(deployments \cup {draft}, insert))
                  /\ deployments' = rollback(deployments, 0)
                  /\ UNCHANGED instances
             ELSE
             \E now \in Clock(deployments) :
             LET db_deployment == [draft EXCEPT !.launch_time = now,
                                      !.created_at = now, !.updated_at = now]
                 inserted == deployments \cup {db_deployment}
             IN
             IF launch # "ok" \/ fresh_instance_ids(instances) = {}
             THEN \* line 75 raised; the INSERT is committed already
                  /\ last' = except_Exception(called, "ClientError")
                  /\ deployments' = inserted
                  /\ UNCHANGED instances
             ELSE
               \E later \in now..MaxClock : \E
                  instance \in run_instances_instances(instances, later),
                  update \in commit_answers :
                 LET running == flush_update(db_deployment,
                                    launched(db_deployment, instance, later), later)
                     updated == (inserted \ {db_deployment}) \cup {running}
                 IN
                 /\ instances' = [instances EXCEPT ![instance.InstanceId] = "pending"]
                 /\ IF commit_error(updated, update) # None
                    THEN \* line 108 raised; rollback
                         /\ last' = except_Exception(called, commit_error(updated, update))
                         /\ deployments' = inserted
                    ELSE /\ last' = [called EXCEPT
                                        !.status_code = 200,
                                        !.success = TRUE,
                                        !.instance_id = running.instance_id,
                                        !.new_deployment_id = running.id]
                         /\ deployments' = updated

\* GET /api/deployments/{deployment_id}, main.py 140-158.
get_deployment(deployment_id) ==
    LET req == request("get", NoRequest, deployment_id)
        deployment == scalar_one_or_none(deployments, deployment_id)
    IN
    /\ IF select_raised # None
       THEN \* line 143 raised
            last' = except_Exception(req, select_raised)
       ELSE \E query \in commit_answers :
              last' = IF query # "ok" THEN except_Exception(req, query)
                      ELSE IF deployment = {}
                      THEN except_Exception(req, HTTPException_404)
                      ELSE [req EXCEPT !.status_code = 200, !.body = deployment]
    /\ UNCHANGED <<deployments, security_groups, instances>>

\* main.py 176-182: the provider's instance copied into the record.
synced(deployment, instance) ==
    [deployment EXCEPT
        !.status = instance.State,
        !.public_ip = IF instance.PublicIpAddress # None
                      THEN instance.PublicIpAddress ELSE @,
        !.private_ip = IF instance.PrivateIpAddress # None
                       THEN instance.PrivateIpAddress ELSE @]

\* POST /api/deployments/{deployment_id}/sync, main.py 160-197.
sync_deployment(deployment_id) ==
    IF select_raised # None
    THEN \* line 163 raised
         /\ last' = except_Exception(
                        request("sync", NoRequest, deployment_id), select_raised)
         /\ deployments' = sync_error_leaves(deployments, deployment_id)
         /\ UNCHANGED <<security_groups, instances>>
    ELSE
    \E query \in commit_answers :
      LET req == request("sync", NoRequest, deployment_id)
          deployment == scalar_one_or_none(deployments, deployment_id)
      IN
      IF query # "ok" \/ deployment = {}
      THEN /\ last' = except_Exception(req,
                          IF query # "ok" THEN query ELSE HTTPException_404)
           /\ deployments' = sync_error_leaves(deployments, deployment_id)
           /\ UNCHANGED <<security_groups, instances>>
      ELSE
        \E instance \in describe_instances_answers(
                            instances, row_of(deployment).instance_id),
           commit \in commit_answers :
          LET called == [req EXCEPT !.calls = <<"describe_instances">>,
                                    !.describe_instances = instance]
              old == row_of(deployment)
              written(new) == (deployments \ {old}) \cup {new}
          IN
          /\ UNCHANGED <<security_groups, instances>>
          /\ IF instance.raised # None
             THEN \* line 173 raised
                  /\ last' = except_Exception(called, instance.raised)
                  /\ deployments' = sync_error_leaves(deployments, deployment_id)
             ELSE IF ~instance.found
             THEN \* line 187
                  /\ last' = except_Exception(called, HTTPException_404)
                  /\ deployments' = sync_error_leaves(deployments, deployment_id)
             ELSE IF commit_error(written(synced(old, instance)), commit) # None
             THEN \* line 184 raised
                  /\ last' = except_Exception(called,
                        commit_error(written(synced(old, instance)), commit))
                  /\ deployments' = sync_error_leaves(deployments, deployment_id)
             ELSE \E now \in Clock(deployments) :
                    LET new == flush_update(old, synced(old, instance), now)
                    IN /\ last' = [called EXCEPT !.status_code = 200, !.body = {new}]
                       /\ deployments' = written(new)

\* DELETE /api/deployments/{deployment_id}, main.py 199-225.
terminate_deployment(deployment_id) ==
    IF select_raised # None
    THEN \* line 202 raised
         /\ last' = except_Exception(
                        request("terminate", NoRequest, deployment_id), select_raised)
         /\ deployments' = rollback(deployments, deployment_id)
         /\ UNCHANGED <<security_groups, instances>>
    ELSE
    \E query \in commit_answers :
      LET req == request("terminate", NoRequest, deployment_id)
          deployment == scalar_one_or_none(deployments, deployment_id)
      IN
      IF query # "ok" \/ deployment = {}
      THEN /\ last' = except_Exception(req,
                          IF query # "ok" THEN query ELSE HTTPException_404)
           /\ deployments' = rollback(deployments, deployment_id)
           /\ UNCHANGED <<security_groups, instances>>
      ELSE
        \E answer \in terminate_instances_answers(
                          instances, row_of(deployment).instance_id),
           commit \in commit_answers :
          LET called == [req EXCEPT !.calls = <<"terminate_instances">>,
                                    !.terminate_instances = answer]
              old == row_of(deployment)
              terminating == [old EXCEPT !.status = "terminating"]
              written(new) == (deployments \ {old}) \cup {new}
          IN
          /\ UNCHANGED security_groups
          /\ IF answer # "ok"
             THEN \* line 212 raised; rollback
                  /\ last' = except_Exception(called, answer)
                  /\ deployments' = rollback(deployments, deployment_id)
                  /\ UNCHANGED instances
             ELSE /\ instances' = terminated_by_request(instances, old.instance_id)
                  /\ IF commit_error(written(terminating), commit) # None
                     THEN \* line 215 raised; rollback
                          /\ last' = except_Exception(called,
                                commit_error(written(terminating), commit))
                          /\ deployments' = rollback(deployments, deployment_id)
                     ELSE \E now \in Clock(deployments) :
                            /\ last' = [called EXCEPT !.status_code = 200,
                                                      !.success = TRUE]
                            /\ deployments' =
                                   written(flush_update(old, terminating, now))

\* An instance changes state at the provider.
provider_transition(instance_id) ==
    /\ \E edge \in provider_edges :
          /\ instances[instance_id] = edge[1]
          /\ instances' = [instances EXCEPT ![instance_id] = edge[2]]
    /\ last' = request("provider", NoRequest, 0)
    /\ UNCHANGED <<deployments, security_groups>>

---------------------------------------------------------------------------
(* The state at startup *)

\* The table outlives the process: init_db creates it only when it is missing
\* (databases.py 25-27), so a process starts on the rows the database holds,
\* whatever wrote them.  They are rows the table's constraints admit
\* (models.py 10-25), in any status of a deployment's life.
InitNames == <<<<"W", "e", "b">>, <<"d", "b">>, <<"a", "p", "i">>>>

StoredStatuses == {"running", "terminating", "terminated", "failed"}

stored_deployment(k, instance_id, status) ==
    [Deployment(k, [instance_name |-> InitNames[((k - 1) % Len(InitNames)) + 1],
                    instance_type |-> "t3.micro", ami_id |-> "ami-123",
                    key_name |-> "k1"],
                GroupIdPool[k], 0)
        EXCEPT !.instance_id = instance_id, !.status = status]

\* Rows of the table's columns: any instance id, any status.
StoredRows ==
    {stored_deployment(k, instance_id, status) :
        k \in 1..MaxInitRows, instance_id \in InstanceIds, status \in StoredStatuses}

\* The tables the database may hold: ids 1..n, constraints kept.  Row k is
\* taken with the k-th instance or the first one, the first row in any status
\* and the others running.
StoredTables ==
    {table \in SUBSET {r \in StoredRows :
                          /\ r.instance_id \in {InstanceIdPool[r.id], InstanceIdPool[1]}
                          /\ r.id > 1 => r.status = "running"} :
        /\ {r.id : r \in table} = 1..Cardinality(table)
        /\ integrity_ok(table)}

stored_group(r) ==
    [GroupId |-> r.security_group_id,
     GroupName |-> group_name_of(r.instance_name),
     VpcId |-> "vpc-1",
     IpPermissions |-> IpPermissions]

\* The provider's state of the instance of a stored row.
stored_instance_state(status) ==
    CASE status = "running" -> "running"
      [] status = "terminating" -> "shutting-down"
      [] status = "terminated" -> "terminated"
      [] OTHER -> "none"

Init ==
    \E table \in StoredTables :
      /\ deployments = table
      /\ security_groups = {stored_group(r) : r \in table}
      /\ instances = [i \in InstanceIds |->
                        IF \E r \in table : r.instance_id = i
                        THEN stored_instance_state(
                                 (CHOOSE r \in table : r.instance_id = i).status)
                        ELSE "none"]
      /\ last = request("startup", NoRequest, 0)

Next ==
    \/ \E deployment \in DeploymentCreate : deploy_instance(deployment)
    \/ \E deployment_id \in DeploymentIds : get_deployment(deployment_id)
    \/ \E deployment_id \in DeploymentIds : sync_deployment(deployment_id)
    \/ \E deployment_id \in DeploymentIds : terminate_deployment(deployment_id)
    \/ \E instance_id \in InstanceIds : provider_transition(instance_id)

Spec == Init /\ [][Next]_vars

---------------------------------------------------------------------------
(* Properties *)

TerminalStatus == {"failed", "terminated"}

\* The database refused a statement of the latest request.
StoreDown == last.raised = "OperationalError"

\* The row the latest request named, as it was when the request came in, and
\* as it is now.
RowBefore == scalar_one_or_none(last.before, last.deployment_id)
RowNow == scalar_one_or_none(deployments, last.deployment_id)

Ids(table) == {r.id : r \in table}

\* The latest step was a deploy whose security group call returned an id and
\* which the database did not refuse to talk to.
DeployedWithGroup ==
    last.op = "deploy" /\ last.security_group.raised = None /\ ~StoreDown

\* C1: a deploy whose rule-set call succeeds and whose launch the provider
\* accepts ends with exactly one new row, running, carrying the provider's
\* instance id and the rule set's id, created_at <= updated_at, and the caller
\* gets success with that instance id and the row's id.
C1_DeployPersistsRunning ==
    (DeployedWithGroup /\ last.run_instances = "ok") =>
        /\ last.status_code = 200 /\ last.success
        /\ last.before \subseteq deployments
        /\ \E r \in deployments :
              /\ deployments \ last.before = {r}
              /\ r.id \notin Ids(last.before)
              /\ r.status = "running"
              /\ r.instance_id # None
              /\ r.instance_id = last.instance_id
              /\ r.security_group_id = last.security_group.GroupId
              /\ r.created_at <= r.updated_at
              /\ r.id = last.new_deployment_id

\* C2: a deploy whose rule-set call succeeds and whose launch the provider
\* refuses returns an error and leaves the row it created, failed and without
\* an instance id.
C2_FailedLaunchRecorded ==
    (DeployedWithGroup /\ last.run_instances = "ClientError") =>
        /\ last.status_code >= 400
        /\ \E r \in deployments :
              /\ r.id \notin Ids(last.before)
              /\ r.status = "failed"
              /\ r.instance_id = None

\* C3: a sync of a row whose status is failed or terminated issues no
\* describe call, leaves the table as it was and returns the row as it was.
C3_SyncTerminalNoOp ==
    (/\ last.op = "sync" /\ ~StoreDown
     /\ RowBefore # {} /\ \A r \in RowBefore : r.status \in TerminalStatus) =>
        /\ Count(last.calls, "describe_instances") = 0
        /\ deployments = last.before
        /\ last.status_code = 200
        /\ last.body = RowBefore

\* C4: a terminate of an id the table does not hold fails with 404, issues no
\* terminate call and leaves the table as it was.
C4_TerminateUnknownIs404 ==
    (last.op = "terminate" /\ ~StoreDown /\ RowBefore = {}) =>
        /\ last.raised = HTTPException_404
        /\ last.status_code = 404
        /\ Count(last.calls, "terminate_instances") = 0
        /\ deployments = last.before

\* The edges of a deployment's status.
StatusEdges ==
    {<<"pending", "running">>, <<"pending", "failed">>,
     <<"running", "terminating">>, <<"terminating", "terminated">>}
    \cup {<<"running", state>> : state \in InstanceStates}

UniqueInstanceIds ==
    \A r1, r2 \in deployments :
        (r1.instance_id # None /\ r1.instance_id = r2.instance_id) => r1.id = r2.id

C7_RuleSetFailureLeavesNothing ==
    (last.op = "deploy" /\ last.security_group.raised # None) =>
        /\ last.status_code >= 400
        /\ Count(last.calls, "run_instances") = 0
        /\ deployments = last.before

\* A deploy on a table with rows in it, whose create_security_group raised
\* after the group was created.
C7_Witness ==
    /\ last.op = "deploy" /\ last.security_group.raised # None
    /\ Count(last.calls, "authorize_security_group_ingress") = 1
    /\ deployments # {}

\* C8: two create_security_group calls in a row with the same derived name,
\* the first of which returned an id: the second, whatever the provider's
\* lookup answers, creates no group and, when it returns, returns that id.
C8_EnsureRuleSetIdempotent ==
    [][(/\ last.op = "deploy" /\ last'.op = "deploy"
        /\ last.security_group.GroupId # None
        /\ group_name_of(last'.deployment.instance_name)
              = group_name_of(last.deployment.instance_name)) =>
            /\ last'.security_group.raised = None =>
                  last'.security_group.GroupId = last.security_group.GroupId
            /\ security_groups' = security_groups]_vars

\* C9: a read or a sync of an id the table does not hold, and a sync whose
\* describe call reports no instance, end with 404: the HTTPException raised
\* inside the handler is what the caller sees.
C9_NotFoundIs404 ==
    (/\ ~StoreDown
     /\ \/ last.op \in {"get", "sync"} /\ RowBefore = {}
        \/ /\ last.op = "sync" /\ RowBefore # {}
           /\ last.describe_instances.raised = None
           /\ ~last.describe_instances.found) =>
        /\ last.raised = HTTPException_404
        /\ last.status_code = 404

\* C10: after a successful sync of a row that was not failed or terminated,
\* status is the state name the provider reported, public_ip and private_ip are
\* the reported addresses where reported and the old ones where not, and id,
\* instance_id, security_group_id, instance_name and created_at are as before.
C10_SyncMirrorsProvider ==
    (/\ last.op = "sync" /\ last.status_code = 200
     /\ \A r \in RowBefore : r.status \notin TerminalStatus) =>
        /\ RowBefore # {} /\ RowNow # {}
        /\ LET old == row_of(RowBefore)
               new == row_of(RowNow)
               instance == last.describe_instances
           IN  /\ instance.found
               /\ new.status = instance.State
               /\ new.public_ip = IF instance.PublicIpAddress # None
                                  THEN instance.PublicIpAddress ELSE old.public_ip
               /\ new.private_ip = IF instance.PrivateIpAddress # None
                                   THEN instance.PrivateIpAddress ELSE old.private_ip
               /\ new.id = old.id
               /\ new.instance_id = old.instance_id
               /\ new.security_group_id = old.security_group_id
               /\ new.instance_name = old.instance_name
               /\ new.created_at = old.created_at
               /\ last.body = RowNow
               /\ deployments \ RowNow = last.before \ RowBefore

\* The status of row id, as a set: empty when the table holds no such row.
StatusOf(table, id) == {r.status : r \in {x \in table : x.id = id}}

\* C11: right after a terminate that succeeded the row's status is
\* terminating, and a row's status becomes terminated only in a sync whose
\* describe call reported the state terminated.
C11_TerminatedOnlyBySync ==
    [][/\ (last'.op = "terminate" /\ last'.status_code = 200) =>
              StatusOf(deployments', last'.deployment_id) = {"terminating"}
       /\ \A r \in deployments : \A r2 \in deployments' :
            (r.id = r2.id /\ r.status # "terminated" /\ r2.status = "terminated") =>
                /\ last'.op = "sync"
                /\ last'.deployment_id = r.id
                /\ last'.describe_instances.State = "terminated"]_vars

\* C12: a terminate whose terminate_instances call the provider refused ends
\* in an error and leaves the table as it was.
C12_TerminateFailureLeavesRecord ==
    (/\ last.op = "terminate"
     /\ Count(last.calls, "terminate_instances") > 0
     /\ last.terminate_instances # "ok") =>
        /\ last.status_code >= 400
        /\ deployments = last.before

FairSpec ==
    /\ Spec
    /\ WF_vars(sync_deployment(1))
    /\ WF_vars(get_deployment(1))
    /\ \A instance_id \in InstanceIds : WF_vars(provider_transition(instance_id))

\* C14: a row that terminate has left terminating becomes terminated in the
\* end, the provider reporting its instance terminated and sync being asked
\* for again and again.
C14_TerminatingBecomesTerminated ==
    (StatusOf(deployments, 1) = {"terminating"}) ~>
        (StatusOf(deployments, 1) = {"terminated"})

\* C15: a deploy whose security group call returned has its row committed,
\* with the group's id, before it asks for the launch, and asks for no launch
\* otherwise: when the handler is through, the table holds the row of the
\* request.
C15_PendingCommittedBeforeLaunch ==
    DeployedWithGroup =>
        /\ \E r \in deployments :
              /\ r.id \notin Ids(last.before)
              /\ r.security_group_id = last.security_group.GroupId
        /\ Count(last.calls, "run_instances") > 0 =>
              Ids(deployments) # Ids(last.before)

\* C16: the id a create_security_group call returns is that of a group with
\* exactly the three ingress rules.
C16_ReturnedGroupHasThreeRules ==
    (last.op = "deploy" /\ last.security_group.raised = None) =>
        /\ \E g \in security_groups : g.GroupId = last.security_group.GroupId
        /\ \A g \in security_groups :
              g.GroupId = last.security_group.GroupId =>
                  g.IpPermissions = IpPermissions

\* C17: rows whose names give the same group name carry the same
\* security_group_id, and the provider holds one group of a name at most.
C17_OneGroupPerName ==
    /\ \A r1, r2 \in deployments :
          group_name_of(r1.instance_name) = group_name_of(r2.instance_name) =>
              r1.security_group_id = r2.security_group_id
    /\ \A g1, g2 \in security_groups :
          g1.GroupName = g2.GroupName => g1.GroupId = g2.GroupId

ProviderCalls ==
    {"describe_security_groups", "describe_vpcs", "create_security_group",
     "authorize_security_group_ingress", "run_instances", "describe_instances",
     "terminate_instances"}

====
